---- MODULE Spec2Model ----
(***************************************************************************)
(* Model of space::QuadTree<space::Rect<int32_t>> (include/QuadTree.h)     *)
(* together with the box predicates of include/Utility.h it is built on.   *)
(*                                                                         *)
(* The tree is a function from node paths to nodes.  A path is the         *)
(* sequence of child slots followed from m_root; <<>> is the root and an   *)
(* empty function is the null m_root.  Each node carries m_region and      *)
(* m_values; m_child[z] of the node at path p is the node at Append(p, z)  *)
(* when that path is in the domain and nullptr otherwise.                  *)
(***************************************************************************)
EXTENDS Integers, Sequences, FiniteSets, Bags, TLC

\* ------------------------------------------------------------------ bounds
MaxPos == 1      \* key positions range over 0..MaxPos on both axes
MaxExt == 1      \* key widths and heights range over 0..MaxExt
MaxKeys == 2     \* inserts are issued while fewer than MaxKeys values are held

\* --------------------------------------------------------------- constants
LeftTop == 0
LeftBottom == 1
RightTop == 2
RightBottom == 3
Int32Min == -2147483647 - 1

ZOrderPos == {LeftTop, LeftBottom, RightTop, RightBottom}

\* The rectangles handed to insert / remove / contains / query.
Keys == [x : 0..MaxPos, y : 0..MaxPos, w : 0..MaxExt, h : 0..MaxExt]

VARIABLES
    nodes,      \* the tree hanging from m_root: path -> [region, values]
    m_size,     \* the incrementally maintained key counter behind size()
    stored,     \* reference set kept by the tests: inserted and not removed since
    last,       \* the call that produced this state and what it returned
    inp,        \* the arguments a geometry function is applied to
    res,        \* the shape or value the geometry functions have produced so far
    pc          \* which function has been applied last

vars == <<nodes, m_size, stored, last, inp, res, pc>>

\* The index takes no part in the geometry checks and the other way round.
indexVars == <<nodes, m_size, stored, last>>

geomVars == <<inp, res, pc>>

\* ------------------------------------------------------- box predicates
\* Rect is [x, y, w, h]; Square is [x, y, size].
bottomLeft(box) == [x |-> box.x, y |-> box.y]

topRight(box) ==
    IF "size" \in DOMAIN box
    THEN [x |-> box.x + box.size, y |-> box.y + box.size]
    ELSE [x |-> box.x + box.w, y |-> box.y + box.h]

\* hesIntersect with strict comparisons: boxes that only touch do not count.
hesIntersectOpen(first, second) ==
    LET f1 == bottomLeft(first)
        f2 == topRight(first)
        s1 == bottomLeft(second)
        s2 == topRight(second)
    IN  f2.x > s1.x /\ s2.x > f1.x /\ f2.y > s1.y /\ s2.y > f1.y

hesIntersect(first, second) ==
    LET f1 == bottomLeft(first)
        f2 == topRight(first)
        s1 == bottomLeft(second)
        s2 == topRight(second)
    IN  f2.x >= s1.x /\ s2.x >= f1.x /\ f2.y >= s1.y /\ s2.y >= f1.y

containsPoint(rect, point) ==
    LET p1 == bottomLeft(rect)
        p2 == topRight(rect)
    IN  (p1.x <= point.x) /\ (point.x <= p2.x) /\ (p1.y <= point.y) /\ (point.y <= p2.y)

containsBox(firstShape, secondShape) ==
    /\ containsPoint(firstShape, bottomLeft(secondShape))
    /\ containsPoint(firstShape, topRight(secondShape))

\* ------------------------------------------------------ region arithmetic
getRectMiddleX(rect) == rect.x + (rect.size \div 2)

getRectMiddleY(rect) == rect.y + (rect.size \div 2)

hasIntersectionWithRegionSplitLines(rect, region) ==
    LET middleX == getRectMiddleX(region)
        middleY == getRectMiddleY(region)
    IN  \/ ((rect.x <= middleX) /\ (middleX <= rect.x + rect.w))
        \/ ((rect.y <= middleY) /\ (middleY <= rect.y + rect.h))

\* getZOrderPos with left and right the wrong way round.
getZOrderPosMirrored(region, key) ==
    LET middleX == getRectMiddleX(region)
        middleY == getRectMiddleY(region)
    IN  IF key.x < middleX
        THEN (IF key.y > middleY THEN RightTop ELSE RightBottom)
        ELSE (IF key.y > middleY THEN LeftTop ELSE LeftBottom)

getZOrderPos(region, key) ==
    LET middleX == getRectMiddleX(region)
        middleY == getRectMiddleY(region)
    IN  IF key.x < middleX
        THEN (IF key.y > middleY THEN LeftTop ELSE LeftBottom)
        ELSE (IF key.y > middleY THEN RightTop ELSE RightBottom)

\* std::round(size / 2.0) rounds halves away from zero.
\* makeChildRegion that hands the LeftTop and the LeftBottom quadrant out
\* the wrong way round.
makeChildRegionSwapped(region, zOrderPos) ==
    LET middleX == getRectMiddleX(region)
        middleY == getRectMiddleY(region)
        size == (region.size + 1) \div 2
    IN  CASE zOrderPos = LeftTop     -> [x |-> region.x, y |-> region.y, size |-> size]
          [] zOrderPos = LeftBottom  -> [x |-> region.x, y |-> middleY, size |-> size]
          [] zOrderPos = RightTop    -> [x |-> middleX, y |-> middleY, size |-> size]
          [] zOrderPos = RightBottom -> [x |-> middleX, y |-> region.y, size |-> size]

makeChildRegion(region, zOrderPos) ==
    LET middleX == getRectMiddleX(region)
        middleY == getRectMiddleY(region)
        size == (region.size + 1) \div 2
    IN  CASE zOrderPos = LeftTop     -> [x |-> region.x, y |-> middleY, size |-> size]
          [] zOrderPos = LeftBottom  -> [x |-> region.x, y |-> region.y, size |-> size]
          [] zOrderPos = RightTop    -> [x |-> middleX, y |-> middleY, size |-> size]
          [] zOrderPos = RightBottom -> [x |-> middleX, y |-> region.y, size |-> size]

\* ------------------------------------------------------------------ nodes
Node(region) == [region |-> region, values |-> {}]

NullRoot == << >>

Root == << >>

HasRoot(tree) == Root \in DOMAIN tree

\* Node::empty() that looks at the values only and not at the child slots.
NodeEmptyValuesOnly(tree, path) ==
    tree[path].values = {}

\* Node::empty(): no values and all four child slots null.
NodeEmpty(tree, path) ==
    /\ tree[path].values = {}
    /\ \A z \in ZOrderPos : Append(path, z) \notin DOMAIN tree

\* ------------------------------------------------------------- findNode
NullNode == [isNull |-> TRUE, path |-> << >>]

RECURSIVE findNodeFrom(_, _, _)
findNodeFrom(tree, key, currentNode) ==
    IF hasIntersectionWithRegionSplitLines(key, tree[currentNode].region)
    THEN [isNull |-> FALSE, path |-> currentNode]
    ELSE LET child == Append(currentNode, getZOrderPos(tree[currentNode].region, key))
         IN  IF child \notin DOMAIN tree
             THEN NullNode
             ELSE findNodeFrom(tree, key, child)

findNode(tree, key) ==
    IF ~HasRoot(tree) THEN NullNode ELSE findNodeFrom(tree, key, Root)

\* ------------------------------------------------------------- contains
\* contains that stops at the node the key routes to and never looks the key
\* up in its values.
ContainsNodeOnly(tree, key) ==
    ~findNode(tree, key).isNull

Contains(tree, key) ==
    LET pNode == findNode(tree, key)
    IN  IF pNode.isNull THEN FALSE ELSE key \in tree[pNode.path].values

\* ---------------------------------------------------------------- query
\* The bag of values written to outIt.  nodeStack is the std::stack of nodes
\* still to visit, top of the stack last.
RECURSIVE queryLoop(_, _, _, _)
queryLoop(tree, key, nodeStack, out) ==
    IF nodeStack = << >>
    THEN out
    ELSE LET currentNode == nodeStack[Len(nodeStack)]
             rest == SubSeq(nodeStack, 1, Len(nodeStack) - 1)
         IN  IF ~hesIntersect(key, tree[currentNode].region)
             THEN queryLoop(tree, key, rest, out)
             ELSE LET child(z) == Append(currentNode, z)
                      pushed(z) == IF child(z) \in DOMAIN tree THEN <<child(z)>> ELSE << >>
                      emitted == {value \in tree[currentNode].values : hesIntersect(key, value)}
                  IN  queryLoop(tree, key,
                                rest \o pushed(LeftTop) \o pushed(LeftBottom)
                                     \o pushed(RightTop) \o pushed(RightBottom),
                                out (+) SetToBag(emitted))

Query(tree, key) ==
    queryLoop(tree, key, IF HasRoot(tree) THEN <<Root>> ELSE << >>, EmptyBag)

\* ------------------------------------------------------------ creatRoot
RECURSIVE FloorLog2(_)
FloorLog2(n) == IF n <= 1 THEN 0 ELSE 1 + FloorLog2(n \div 2)

RECURSIVE Pow2(_)
Pow2(e) == IF e = 0 THEN 1 ELSE 2 * Pow2(e - 1)

\* static_cast<int32_t>(std::log2(0)) converts -infinity to int32_t, which is
\* undefined: the hardware conversion yields INT32_MIN, a folded constant may
\* be any value (0 stands for those).
NegInfToInt32 == {Int32Min, 0}

Log2ToInt32(m) == IF m >= 1 THEN {FloorLog2(m)} ELSE NegInfToInt32

\* static_cast<int32_t>(std::pow(2, e)): a negative exponent truncates to 0.
Pow2ToInt32(e) == IF e < 0 THEN 0 ELSE Pow2(e)

creatRootSizes(key) ==
    LET tr == topRight(key)
        m == IF tr.x >= tr.y THEN tr.x ELSE tr.y
    IN  { (LET regionSize == Pow2ToInt32(l + 1)
           IN  IF 0 = regionSize THEN 1 ELSE regionSize) : l \in Log2ToInt32(m) }

\* creatRoot with the "+ 1" of the exponent dropped: half the region size.
creatRootHalf(regionSize) ==
    [p \in {Root} |->
        Node([x |-> 0, y |-> 0,
              size |-> IF regionSize \div 2 = 0 THEN 1 ELSE regionSize \div 2])]

creatRoot(regionSize) ==
    [p \in {Root} |-> Node([x |-> 0, y |-> 0, size |-> regionSize])]

\* --------------------------------------------------------- growUpIfNeeds
\* growUpOnce that installs the previous root as the LeftTop child.
growUpOnceLeftTop(tree) ==
    LET regionSize == tree[Root].region.size * 2
        newRoot == Node([x |-> 0, y |-> 0, size |-> regionSize])
    IN  [p \in {Root} \cup { <<LeftTop>> \o q : q \in DOMAIN tree } |->
            IF p = Root THEN newRoot ELSE tree[Tail(p)]]

growUpOnce(tree) ==
    LET regionSize == tree[Root].region.size * 2
        newRoot == Node([x |-> 0, y |-> 0, size |-> regionSize])
    IN  [p \in {Root} \cup { <<LeftBottom>> \o q : q \in DOMAIN tree } |->
            IF p = Root THEN newRoot ELSE tree[Tail(p)]]

RECURSIVE growUpIfNeeds(_, _)
growUpIfNeeds(tree, key) ==
    IF containsBox(tree[Root].region, key)
    THEN tree
    ELSE growUpIfNeeds(growUpOnce(tree), key)

\* --------------------------------------- growDownIfNeedsAndReturnLastNode
RECURSIVE growDownFrom(_, _, _)
growDownFrom(tree, key, currentNode) ==
    IF \/ hasIntersectionWithRegionSplitLines(key, tree[currentNode].region)
       \/ 1 = tree[currentNode].region.size
    THEN [tree |-> tree, path |-> currentNode]
    ELSE LET childPosition == getZOrderPos(tree[currentNode].region, key)
             child == Append(currentNode, childPosition)
             grown == IF child \in DOMAIN tree
                      THEN tree
                      ELSE [p \in DOMAIN tree \cup {child} |->
                               IF p = child
                               THEN Node(makeChildRegion(tree[currentNode].region, childPosition))
                               ELSE tree[p]]
         IN  growDownFrom(grown, key, child)

growDownIfNeedsAndReturnLastNode(tree, key) == growDownFrom(tree, key, Root)

\* --------------------------------------------------- addValue / eraseValue
addValue(tree, path, box) ==
    [tree EXCEPT ![path].values = @ \cup {box}]

eraseValue(tree, path, box) ==
    [tree EXCEPT ![path].values = @ \ {box}]

\* unique_ptr::reset(nullptr) on the slot holding the node at path.
resetNode(tree, path) ==
    [p \in { q \in DOMAIN tree :
                ~(Len(q) >= Len(path) /\ SubSeq(q, 1, Len(path)) = path) } |-> tree[p]]

\* All values held anywhere in the tree, with multiplicity.
RECURSIVE BagOfPaths(_, _)
BagOfPaths(tree, paths) ==
    IF paths = {} THEN EmptyBag
    ELSE LET p == CHOOSE q \in paths : TRUE
         IN  SetToBag(tree[p].values) (+) BagOfPaths(tree, paths \ {p})

AllValues(tree) == BagOfPaths(tree, DOMAIN tree)

\* -------------------------------------------------------------- insert
insertTree(tree, key, regionSize) ==
    LET rooted == IF ~HasRoot(tree) THEN creatRoot(regionSize) ELSE tree
        up == growUpIfNeeds(rooted, key)
        down == growDownIfNeedsAndReturnLastNode(up, key)
    IN  [tree |-> addValue(down.tree, down.path, key),
         node |-> down.path,
         isNew |-> key \notin down.tree[down.path].values]

\* insert(k) -> bool: true if newly inserted into the node's ordered set.
insertReturn(ins) == ins.isNew

\* remove(k) -> bool: true if the key was found in the target node.
removeReturn(tree, key) ==
    LET node == findNode(tree, key)
    IN  IF node.isNull THEN FALSE ELSE key \in tree[node.path].values

\* remove that resets the node it found without asking whether it is empty.
removeTreeAlwaysReset(tree, key) ==
    LET node == findNode(tree, key)
    IN  IF node.isNull
        THEN tree
        ELSE resetNode(eraseValue(tree, node.path, key), node.path)

removeTree(tree, key) ==
    LET node == findNode(tree, key)
    IN  IF node.isNull
        THEN tree
        ELSE LET erased == eraseValue(tree, node.path, key)
             IN  IF NodeEmpty(erased, node.path)
                 THEN resetNode(erased, node.path)
                 ELSE erased

Init ==
    /\ nodes = NullRoot
    /\ m_size = 0
    /\ stored = {}
    /\ last = [op |-> "new", key |-> [x |-> 0, y |-> 0, w |-> 0, h |-> 0], ret |-> FALSE]
    /\ inp = <<>>
    /\ res = <<>>
    /\ pc = "index"

Insert(key, regionSize) ==
    /\ BagCardinality(AllValues(nodes)) < MaxKeys
    /\ LET ins == insertTree(nodes, key, regionSize)
       IN  /\ nodes' = ins.tree
           /\ m_size' = IF insertReturn(ins) THEN m_size + 1 ELSE m_size
           /\ last' = [op |-> "insert", key |-> key, ret |-> insertReturn(ins)]
    /\ stored' = stored \cup {key}
    /\ UNCHANGED geomVars

Remove(key) ==
    /\ nodes' = removeTree(nodes, key)
    /\ m_size' = IF removeReturn(nodes, key) THEN m_size - 1 ELSE m_size
    /\ last' = [op |-> "remove", key |-> key, ret |-> removeReturn(nodes, key)]
    /\ stored' = stored \ {key}
    /\ UNCHANGED geomVars

Clear ==
    /\ nodes' = NullRoot
    /\ m_size' = 0
    /\ stored' = {}
    /\ last' = [op |-> "clear", key |-> last.key, ret |-> FALSE]
    /\ UNCHANGED geomVars

Next ==
    \/ \E key \in Keys : \E regionSize \in creatRootSizes(key) : Insert(key, regionSize)
    \/ \E key \in Keys : Remove(key)
    \/ Clear

Spec == Init /\ [][Next]_vars

TypeOK ==
    /\ m_size \in Int
    /\ stored \subseteq Keys
    /\ \A p \in DOMAIN nodes : nodes[p].values \subseteq Keys

\* ------------------------------------------------------- derived notions
\* size() and empty() of the index.
size == m_size

empty == (size = 0)

\* The paths of the nodes whose m_values hold key.
HoldersOf(tree, key) == {p \in DOMAIN tree : key \in tree[p].values}

\* The last insert replaced the root by a doubled one.
GrewUp ==
    /\ last'.op = "insert"
    /\ HasRoot(nodes)
    /\ nodes'[Root].region.size > nodes[Root].region.size

\* What query(q) has to emit according to the reference set.
Expected(q) == SetToBag({k \in stored : hesIntersect(q, k)})

\* ---------------------------------------------------------------- claims

\* C1: in every reachable state, for every query rectangle q, the bag emitted
\* by query(q) is exactly the set of keys inserted and not removed since that
\* intersect q, each once.
C1_QueryEqualsStored ==
    \A q \in Keys : Query(nodes, q) = Expected(q)

\* C2: immediately after insert(k) returns, contains(k) is true.
C2_ContainsAfterInsert ==
    last.op = "insert" => Contains(nodes, last.key)

\* C3: an insert that grows the root up keeps every key that was stored and
\* found by contains before it: contains still finds it, remove still removes
\* it, and every intersecting query still emits it.
C3_GrowUpPreserves ==
    [][GrewUp =>
          \A k \in stored :
              Contains(nodes, k) =>
                  /\ Contains(nodes', k)
                  /\ HoldersOf(removeTree(nodes', k), k) = {}
                  /\ \A q \in Keys : hesIntersect(q, k) => BagIn(k, Query(nodes', q))
      ]_vars

\* C4: after remove(k) of a stored key k, contains(k) is false, no query emits
\* k, and every other stored key that contains found before the call is still
\* found by contains and emitted by every intersecting query.
C4_RemoveRemoves ==
    [][(last'.op = "remove" /\ last'.key \in stored) =>
          /\ ~Contains(nodes', last'.key)
          /\ \A q \in Keys : ~BagIn(last'.key, Query(nodes', q))
          /\ \A o \in stored \ {last'.key} :
                 Contains(nodes, o) =>
                     /\ Contains(nodes', o)
                     /\ \A q \in Keys : hesIntersect(q, o) => BagIn(o, Query(nodes', q))
      ]_vars

\* C5: size() is the number of keys inserted and not removed since.
C5_SizeIsCardinality ==
    size = Cardinality(stored)

\* C6: insert(k) returns true iff k was not stored before the call, and an
\* insert of a stored key leaves the held values and size() unchanged.  Stated
\* for the calls before which the reference set and the tree agree on whether
\* k is stored.
C6_InsertReturn ==
    [][(/\ last'.op = "insert"
        /\ (last'.key \in stored) <=> (HoldersOf(nodes, last'.key) # {})) =>
          /\ last'.ret <=> (last'.key \notin stored)
          /\ (last'.key \in stored) =>
                 (AllValues(nodes') = AllValues(nodes) /\ m_size' = m_size)
      ]_vars

\* C7: every key is held by at most one node, and no query emits a key twice.
C7_OneNodePerKey ==
    \A k \in Keys :
        /\ Cardinality(HoldersOf(nodes, k)) <= 1
        /\ \A q \in Keys : CopiesIn(k, Query(nodes, q)) <= 1

\* C8: contains(k) is false for every key that is not stored (never inserted,
\* or removed), also on a rootless index, where every query emits nothing.
C8_ContainsFalseWhenAbsent ==
    /\ \A k \in Keys \ stored : ~Contains(nodes, k)
    /\ ~HasRoot(nodes) => \A q \in Keys : Query(nodes, q) = EmptyBag

\* C8 witness: a key was just removed from an index that still has a root,
\* and contains does not find it.
C8_Witness ==
    /\ last.op = "remove" /\ last.ret
    /\ HasRoot(nodes)
    /\ ~Contains(nodes, last.key)

\* C9: remove(k) of a key that is not stored leaves the held values, size()
\* and empty() unchanged.
C9_RemoveAbsentNoChange ==
    [][(last'.op = "remove" /\ last'.key \notin stored) =>
          /\ AllValues(nodes') = AllValues(nodes)
          /\ size' = size
          /\ empty' = empty
      ]_vars

\* C9 witness: a remove that found the node its key routes to, but not the
\* key in it, on an index holding other keys.
C9_Witness ==
    /\ last.op = "remove" /\ ~last.ret
    /\ ~findNode(nodes, last.key).isNull
    /\ stored # {}

\* C10: after clear() the root is dropped, empty() is true, size() is 0,
\* contains is false for every key and every query emits nothing; the insert
\* that follows behaves as the first insert into a fresh index.
C10_Clear ==
    [][/\ last'.op = "clear" =>
              /\ ~HasRoot(nodes')
              /\ empty' /\ size' = 0
              /\ \A k \in Keys : ~Contains(nodes', k)
              /\ \A q \in Keys : Query(nodes', q) = EmptyBag
       /\ (last.op = "clear" /\ last'.op = "insert") =>
              /\ last'.ret /\ size' = 1
              /\ nodes'[Root].region.x = 0 /\ nodes'[Root].region.y = 0
              /\ nodes'[Root].region.size \in creatRootSizes(last'.key)
              /\ containsBox(nodes'[Root].region, last'.key)
              /\ Contains(nodes', last'.key)
              /\ AllValues(nodes') = SetToBag({last'.key})
      ]_vars

\* C10 witness: clear() has just run and left a rootless, empty index.
C10_Witness ==
    /\ last.op = "clear"
    /\ ~HasRoot(nodes)
    /\ empty

\* C11: in every reachable state empty() is true exactly when no key is
\* stored, that is when every inserted key has been removed again.
C11_EmptyIffNothingStored ==
    empty <=> (stored = {})

\* ======================================================== box predicates
\* Rect and Square arguments of the box predicates, also left of and below
\* the origin.
Rects == [x : -MaxPos..MaxPos, y : -MaxPos..MaxPos, w : 0..MaxExt, h : 0..MaxExt]

Squares == [x : -MaxPos..MaxPos, y : -MaxPos..MaxPos, size : 0..MaxExt]

Boxes == Rects \cup Squares

\* No index is built while the geometry functions are applied.
IndexIdle ==
    /\ nodes = NullRoot
    /\ m_size = 0
    /\ stored = {}
    /\ last = [op |-> "new", key |-> [x |-> 0, y |-> 0, w |-> 0, h |-> 0], ret |-> FALSE]

InitBoxes ==
    /\ IndexIdle
    /\ inp \in [first : Boxes, second : Boxes]
    /\ res = <<>>
    /\ pc = "start"

\* hesIntersect(first, second) and hesIntersect(second, first).
HesIntersect ==
    /\ pc = "start"
    /\ res' = [there |-> hesIntersect(inp.first, inp.second),
               back |-> hesIntersect(inp.second, inp.first)]
    /\ pc' = "hesIntersect"
    /\ UNCHANGED <<inp, indexVars>>

NextBoxes == HesIntersect

SpecBoxes == InitBoxes /\ [][NextBoxes]_vars

\* The four sides of a box as the claims name them.
LeftOf(box) == box.x

BottomOf(box) == box.y

RightOf(box) == box.x + (IF "size" \in DOMAIN box THEN box.size ELSE box.w)

TopOf(box) == box.y + (IF "size" \in DOMAIN box THEN box.size ELSE box.h)

\* C12: for all boxes a and b, hesIntersect(a, b) is true iff a.right >=
\* b.left, b.right >= a.left, a.top >= b.bottom and b.top >= a.bottom, so
\* boxes that only touch intersect, and hesIntersect(b, a) gives the same.
C12_BoxIntersects ==
    pc = "hesIntersect" =>
        /\ res.there <=> (/\ RightOf(inp.first) >= LeftOf(inp.second)
                          /\ RightOf(inp.second) >= LeftOf(inp.first)
                          /\ TopOf(inp.first) >= BottomOf(inp.second)
                          /\ TopOf(inp.second) >= BottomOf(inp.first))
        /\ res.back = res.there

\* C12 witness: a Rect and a Square that share one corner point only were
\* found to intersect.
C12_Witness ==
    /\ pc = "hesIntersect"
    /\ "size" \in DOMAIN inp.second /\ "w" \in DOMAIN inp.first
    /\ inp.first.w > 0 /\ inp.first.h > 0 /\ inp.second.size > 0
    /\ RightOf(inp.first) = LeftOf(inp.second)
    /\ TopOf(inp.first) = BottomOf(inp.second)
    /\ res.there

\* ================================================================== move
MaxCoord == 1         \* point coordinates and move offsets range over -MaxCoord..MaxCoord
MaxCurveLen == 2      \* moved boundary curves have up to MaxCurveLen vertices
MaxHoles == 1         \* moved polygons have up to MaxHoles holes

Points == [x : -MaxCoord..MaxCoord, y : -MaxCoord..MaxCoord]

Deltas == -MaxCoord..MaxCoord

\* Vertices of the curves that are moved.
CurvePoints == [x : 0..MaxCoord, y : 0..MaxCoord]

\* SimplePolygon is its m_piecewiseLinearCurve, the empty one included.
Curves == UNION { [1..n -> CurvePoints] : n \in 0..MaxCurveLen }

\* Polygon is its m_arrContours: empty when default constructed, otherwise
\* the boundary followed by the holes.
Contours == {<<>>} \cup UNION { [1..n -> Curves] : n \in 1..(MaxHoles + 1) }

\* What a call hands back: a value, or the exception it threw, or the
\* std::terminate an exception leaving a noexcept function ends in.
Returned(val) == [status |-> "ok", val |-> val]

Thrown == [status |-> "out_of_range", val |-> <<>>]

Terminated == [status |-> "terminate", val |-> <<>>]

\* ---------------------------------------------------------------- Point
setX(point, newX) == [point EXCEPT !.x = newX]

\* setY that assigns m_y.
setYOfY(point, newY) == [point EXCEPT !.y = newY]

setY(point, newY) == [point EXCEPT !.x = newY]

movePoint(point, deltaX, deltaY) ==
    LET moved == setX(point, point.x + deltaX)
    IN  setY(moved, moved.y + deltaY)

\* move of a Rect or Square: moves pos() and nothing else.
moveBox(rect, deltaX, deltaY) ==
    LET pos == movePoint([x |-> rect.x, y |-> rect.y], deltaX, deltaY)
    IN  [rect EXCEPT !.x = pos.x, !.y = pos.y]

\* boundaryCurve() throws on the empty polygon, and move is noexcept.
moveSimplePolygon(poly, deltaX, deltaY) ==
    IF poly = <<>>
    THEN Terminated
    ELSE Returned([i \in DOMAIN poly |-> movePoint(poly[i], deltaX, deltaY)])

\* boundary() throws on the empty polygon, and move is noexcept.
movePolygon(poly, deltaX, deltaY) ==
    IF poly = <<>> \/ \E i \in DOMAIN poly : poly[i] = <<>>
    THEN Terminated
    ELSE Returned([i \in DOMAIN poly |-> moveSimplePolygon(poly[i], deltaX, deltaY).val])

move(kind, shape, deltaX, deltaY) ==
    CASE kind = "Point" -> Returned(movePoint(shape, deltaX, deltaY))
      [] kind \in {"Rect", "Square"} -> Returned(moveBox(shape, deltaX, deltaY))
      [] kind = "SimplePolygon" -> moveSimplePolygon(shape, deltaX, deltaY)
      [] kind = "Polygon" -> movePolygon(shape, deltaX, deltaY)

MoveInputs ==
    LET shapes == [kind : {"Point"}, shape : Points]
                  \cup [kind : {"Rect"}, shape : Keys]
                  \cup [kind : {"Square"}, shape : Squares]
                  \cup [kind : {"SimplePolygon"}, shape : Curves]
                  \cup [kind : {"Polygon"}, shape : Contours]
    IN  { [kind |-> s.kind, shape |-> s.shape, dx |-> dx, dy |-> dy] :
              s \in shapes, dx \in Deltas, dy \in Deltas }

InitMove ==
    /\ IndexIdle
    /\ inp \in MoveInputs
    /\ res = Returned(inp.shape)
    /\ pc = "start"

\* move(shape, dx, dy)
Move ==
    /\ pc = "start"
    /\ res' = move(inp.kind, res.val, inp.dx, inp.dy)
    /\ pc' = "moved"
    /\ UNCHANGED <<inp, indexVars>>

\* move(shape, -dx, -dy) of the shape that was moved by (dx, dy)
MoveBack ==
    /\ pc = "moved"
    /\ res.status = "ok"
    /\ res' = move(inp.kind, res.val, -inp.dx, -inp.dy)
    /\ pc' = "back"
    /\ UNCHANGED <<inp, indexVars>>

NextMove == Move \/ MoveBack

SpecMove == InitMove /\ [][NextMove]_vars

\* A point, a box, a curve and a contour list shifted by (dx, dy).
ShiftedPoint(point, dx, dy) == [point EXCEPT !.x = @ + dx, !.y = @ + dy]

ShiftedCurve(curve, dx, dy) ==
    [i \in DOMAIN curve |-> ShiftedPoint(curve[i], dx, dy)]

Shifted(kind, shape, dx, dy) ==
    CASE kind \in {"Point", "Rect", "Square"} -> ShiftedPoint(shape, dx, dy)
      [] kind = "SimplePolygon" -> ShiftedCurve(shape, dx, dy)
      [] kind = "Polygon" -> [i \in DOMAIN shape |-> ShiftedCurve(shape[i], dx, dy)]

\* C13: move(shape, dx, dy) makes a Point (x, y) the point (x + dx, y + dy),
\* shifts the pos of a Rect or Square and keeps its extents, and shifts every
\* vertex of a SimplePolygon and of every contour of a Polygon.
C13_MoveShifts ==
    pc = "moved" =>
        /\ res.status = "ok"
        /\ res.val = Shifted(inp.kind, inp.shape, inp.dx, inp.dy)

\* C14: moving a Point, Rect, Square, non-empty SimplePolygon or non-empty
\* Polygon by (dx, dy) and then by (-dx, -dy) yields the original shape.
C14_MoveRoundTrip ==
    (pc = "back" /\ inp.shape # <<>>) =>
        (res.status = "ok" /\ res.val = inp.shape)

\* =============================================================== Segment
Segments == [first : Points, second : Points]

onSegment(segment, point) ==
    LET p == segment.first
        q == segment.second
        max(a, b) == IF a < b THEN b ELSE a
        min(a, b) == IF b < a THEN b ELSE a
    IN  /\ point.x <= max(p.x, q.x)
        /\ point.x >= min(p.x, q.x)
        /\ point.y <= max(p.y, q.y)
        /\ point.y >= min(p.y, q.y)

collinear == 0
clockwise == 1
counterclockwise == 2

orientation(p, q, r) ==
    LET val == (q.y - p.y) * (r.x - q.x) - (q.x - p.x) * (r.y - q.y)
    IN  IF val = 0 THEN collinear
        ELSE IF val > 0 THEN clockwise ELSE counterclockwise

\* hasIntersect reduced to its general case.
hasIntersectGeneral(first, second) ==
    LET o1 == orientation(first.first, first.second, second.first)
        o2 == orientation(first.first, first.second, second.second)
        o3 == orientation(second.first, second.second, first.first)
        o4 == orientation(second.first, second.second, first.second)
    IN  o1 # o2 /\ o3 # o4

hasIntersect(first, second) ==
    LET p1 == first.first
        q1 == first.second
        p2 == second.first
        q2 == second.second
        o1 == orientation(p1, q1, p2)
        o2 == orientation(p1, q1, q2)
        o3 == orientation(p2, q2, p1)
        o4 == orientation(p2, q2, q1)
    IN  IF o1 # o2 /\ o3 # o4 THEN TRUE
        ELSE IF o1 = collinear /\ onSegment(first, p2) THEN TRUE
        ELSE IF o2 = collinear /\ onSegment(first, q2) THEN TRUE
        ELSE IF o3 = collinear /\ onSegment(second, p1) THEN TRUE
        ELSE IF o4 = collinear /\ onSegment(second, q1) THEN TRUE
        ELSE FALSE

InitSegments ==
    /\ IndexIdle
    /\ inp \in [first : Segments, second : Segments]
    /\ res = <<>>
    /\ pc = "start"

\* hasIntersect(first, second) and hasIntersect(second, first).
HasIntersect ==
    /\ pc = "start"
    /\ res' = [there |-> hasIntersect(inp.first, inp.second),
               back |-> hasIntersect(inp.second, inp.first)]
    /\ pc' = "hasIntersect"
    /\ UNCHANGED <<inp, indexVars>>

NextSegments == HasIntersect

SpecSegments == InitSegments /\ [][NextSegments]_vars

\* Whether two closed segments share a point, from the parameters t and u of
\* a.first + t * d1 = b.first + u * d2, without any orientation test.
Minus(p, q) == [x |-> p.x - q.x, y |-> p.y - q.y]

Cross(u, v) == u.x * v.y - u.y * v.x

Dot(u, v) == u.x * v.x + u.y * v.y

PointOnSegment(point, seg) ==
    LET d == Minus(seg.second, seg.first)
        w == Minus(point, seg.first)
    IN  IF seg.first = seg.second
        THEN point = seg.first
        ELSE Cross(w, d) = 0 /\ 0 <= Dot(w, d) /\ Dot(w, d) <= Dot(d, d)

SegmentsMeet(a, b) ==
    LET d1 == Minus(a.second, a.first)
        d2 == Minus(b.second, b.first)
        w == Minus(b.first, a.first)
        D == Cross(d1, d2)
        tn == Cross(w, d2)
        un == Cross(w, d1)
        s1 == Dot(w, d1)
        s2 == Dot(Minus(b.second, a.first), d1)
    IN  IF D > 0 THEN 0 <= tn /\ tn <= D /\ 0 <= un /\ un <= D
        ELSE IF D < 0 THEN D <= tn /\ tn <= 0 /\ D <= un /\ un <= 0
        ELSE IF a.first = a.second THEN PointOnSegment(a.first, b)
        ELSE IF b.first = b.second THEN PointOnSegment(b.first, a)
        ELSE /\ un = 0
             /\ (s1 >= 0 \/ s2 >= 0)
             /\ (s1 <= Dot(d1, d1) \/ s2 <= Dot(d1, d1))

\* C15: for all segments a and b, zero-length ones included, hasIntersect(a, b)
\* is true iff the closed segments share a point, and hasIntersect(b, a)
\* gives the same answer.
C15_SegmentIntersects ==
    pc = "hasIntersect" =>
        /\ res.there <=> SegmentsMeet(inp.first, inp.second)
        /\ res.back = res.there

\* C15 witness: a zero-length segment lying strictly inside another segment
\* was found to intersect it.
C15_Witness ==
    /\ pc = "hasIntersect"
    /\ inp.first.first = inp.first.second
    /\ inp.second.first # inp.second.second
    /\ inp.first.first \notin {inp.second.first, inp.second.second}
    /\ res.there /\ res.back

\* ========================================= contains(SimplePolygon, Point)
MaxPolyX == 3         \* polygon vertices have x in 0..MaxPolyX
MaxPolyY == 2         \* polygon vertices have y in 0..MaxPolyY
MaxVertices == 4      \* polygons have up to MaxVertices vertices

PolyPoints == [x : 0..MaxPolyX, y : 0..MaxPolyY]

\* The points asked for: the vertex grid and one column to its left and right.
QueryPoints == [x : -1..(MaxPolyX + 1), y : 0..MaxPolyY]

\* Point::operator<=> is defaulted: m_x first, then m_y.
PointLess(p, q) == p.x < q.x \/ (p.x = q.x /\ p.y < q.y)

\* Rect(leftBottom, rightTop) over the result of std::ranges::minmax_element.
boundaryBoxOf(curve) ==
    LET leftBottom == CHOOSE p \in {curve[i] : i \in DOMAIN curve} :
                          \A i \in DOMAIN curve : ~PointLess(curve[i], p)
        rightTop == CHOOSE p \in {curve[i] : i \in DOMAIN curve} :
                        \A i \in DOMAIN curve : ~PointLess(p, curve[i])
    IN  [x |-> leftBottom.x, y |-> leftBottom.y,
         w |-> rightTop.x - leftBottom.x, h |-> rightTop.y - leftBottom.y]

infinityXAxisFor(curve) == topRight(boundaryBoxOf(curve)).x + 1

\* The do-while of contains from vertex index i (counted from 0) on, with
\* count crossings seen so far.
RECURSIVE containsFrom(_, _, _, _, _)
containsFrom(boundary, point, horizontalLine, i, count) ==
    LET numOfVertex == Len(boundary)
        next == (i + 1) % numOfVertex
        polygonEdge == [first |-> boundary[i + 1], second |-> boundary[next + 1]]
        onLine == hasIntersect(polygonEdge, horizontalLine)
        twice == /\ onSegment(horizontalLine, polygonEdge.second)
                 /\ orientation(point, polygonEdge.second, polygonEdge.first)
                        = orientation(boundary[((i + 2) % numOfVertex) + 1],
                                      polygonEdge.second, point)
        counted == IF ~onLine THEN count
                   ELSE IF twice THEN count + 2 ELSE count + 1
    IN  IF onLine /\ collinear = orientation(polygonEdge.first, point, polygonEdge.second)
        THEN onSegment(polygonEdge, point)
        ELSE IF next = 0
             THEN counted % 2 = 1
             ELSE containsFrom(boundary, point, horizontalLine, next, counted)

\* contains is noexcept and asks for the bounding box before it looks at the
\* number of vertices; boundaryCurve() throws on the empty polygon.
containsSimplePolygon(poly, point) ==
    IF poly = <<>>
    THEN Terminated
    ELSE LET infinity == infinityXAxisFor(poly)
             horizontalLine == [first |-> point,
                                second |-> [x |-> infinity, y |-> point.y]]
         IN  IF Len(poly) < 3
             THEN Returned(FALSE)
             ELSE Returned(containsFrom(poly, point, horizontalLine, 0, 0))

\* Edge i of a closed curve, counted from 1: from vertex i to the next one.
Edge(curve, i) == [first |-> curve[i], second |-> curve[(i % Len(curve)) + 1]]

\* A closed curve that does not touch or cross itself: distinct vertices,
\* neighbouring edges that share their common vertex only, other edges that
\* share nothing.
IsSimple(curve) ==
    LET n == Len(curve)
    IN  /\ n >= 3
        /\ \A i, j \in 1..n : i < j => curve[i] # curve[j]
        /\ \A i, j \in 1..n :
               i < j =>
                   IF j = i + 1
                   THEN /\ ~PointOnSegment(Edge(curve, j).second, Edge(curve, i))
                        /\ ~PointOnSegment(Edge(curve, i).first, Edge(curve, j))
                   ELSE IF i = 1 /\ j = n
                   THEN /\ ~PointOnSegment(Edge(curve, j).first, Edge(curve, i))
                        /\ ~PointOnSegment(Edge(curve, i).second, Edge(curve, j))
                   ELSE ~SegmentsMeet(Edge(curve, i), Edge(curve, j))

\* Every vertex is a corner: no three consecutive vertices on one line.
HasCornersOnly(curve) ==
    \A i \in 1..Len(curve) :
        Cross(Minus(Edge(curve, i).second, Edge(curve, i).first),
              Minus(Edge(curve, (i % Len(curve)) + 1).second,
                    Edge(curve, (i % Len(curve)) + 1).first)) # 0

CurvesOfLen(n) == [1..n -> PolyPoints]

\* Polygons contains treats as empty: 0, 1 or 2 vertices.
ShortCurves == UNION { CurvesOfLen(n) : n \in 0..2 }

\* The simple polygons with vertices among points and a number of vertices
\* among sizes.
SimplePolygonsOf(points, sizes) ==
    { curve \in UNION { [1..n -> points] : n \in sizes } :
          IsSimple(curve) /\ HasCornersOnly(curve) }

\* The square grid 0..MaxPolyY.
OuterPoints == [x : 0..MaxPolyY, y : 0..MaxPolyY]

\* Every polygon with up to maxVertices vertices with every point asked for,
\* and the polygons with one vertex more on the square grid, asked for their
\* own vertices only.
ContainsInputs(maxVertices) ==
    [poly : ShortCurves \cup SimplePolygonsOf(PolyPoints, 3..maxVertices),
     point : QueryPoints]
    \cup { [poly |-> curve, point |-> curve[i]] :
               curve \in SimplePolygonsOf(OuterPoints, {maxVertices + 1}),
               i \in 1..(maxVertices + 1) }

InitContains ==
    /\ IndexIdle
    /\ inp \in ContainsInputs(MaxVertices)
    /\ res = <<>>
    /\ pc = "start"

\* contains(poly, point)
ContainsPoint ==
    /\ pc = "start"
    /\ res' = containsSimplePolygon(inp.poly, inp.point)
    /\ pc' = "contains"
    /\ UNCHANGED <<inp, indexVars>>

NextContains == ContainsPoint

SpecContains == InitContains /\ [][NextContains]_vars

\* The point lies on an edge of the curve.
OnBoundary(curve, q) ==
    \E i \in 1..Len(curve) : PointOnSegment(q, Edge(curve, i))

\* The edge crosses the open ray from q to the right, an edge counting for
\* its lower end and not for its upper end.
CrossesRay(edge, q) ==
    LET a == edge.first
        b == edge.second
    IN  /\ (a.y > q.y) # (b.y > q.y)
        /\ IF b.y > a.y
           THEN (q.y - a.y) * (b.x - a.x) > (q.x - a.x) * (b.y - a.y)
           ELSE (q.y - a.y) * (b.x - a.x) < (q.x - a.x) * (b.y - a.y)

\* The point lies inside the curve or on it.
InsideOrOn(curve, q) ==
    \/ OnBoundary(curve, q)
    \/ Cardinality({i \in 1..Len(curve) : CrossesRay(Edge(curve, i), q)}) % 2 = 1

\* C16: for every simple polygon with at least 3 vertices and every point q,
\* contains(P, q) is true iff q lies inside P or on its boundary.
C16_ContainsIffInside ==
    (pc = "contains" /\ Len(inp.poly) >= 3) =>
        (res.status = "ok" /\ res.val = InsideOrOn(inp.poly, inp.point))

\* C17: contains(P, v) is true for every vertex v of a simple polygon with at
\* least 3 vertices.
C17_VertexContained ==
    (/\ pc = "contains"
     /\ Len(inp.poly) >= 3
     /\ \E i \in DOMAIN inp.poly : inp.poly[i] = inp.point) =>
        (res.status = "ok" /\ res.val = TRUE)

\* C18: contains(P, q) returns false and does not fail for every polygon with
\* 0, 1 or 2 vertices.
C18_ShortPolygonFalse ==
    (pc = "contains" /\ Len(inp.poly) < 3) =>
        (res.status = "ok" /\ res.val = FALSE)

\* =============================================== contains(Polygon, Point)
\* std::ranges::none_of over holes(): the contours from index i on.
RECURSIVE noneOfHoles(_, _, _)
noneOfHoles(poly, point, i) ==
    IF i > Len(poly)
    THEN Returned(TRUE)
    ELSE LET inHole == containsSimplePolygon(poly[i], point)
         IN  IF inHole.status # "ok" THEN Terminated
             ELSE IF inHole.val THEN Returned(FALSE)
             ELSE noneOfHoles(poly, point, i + 1)

containsPolygon(poly, point) ==
    IF poly = <<>>
    THEN Returned(FALSE)
    ELSE LET inBoundary == containsSimplePolygon(poly[1], point)
         IN  IF inBoundary.status # "ok" THEN Terminated
             ELSE IF ~inBoundary.val THEN Returned(FALSE)
             ELSE noneOfHoles(poly, point, 2)

\* Holes: clockwise triangles listed from their smallest vertex.
HoleTriangles ==
    { curve \in [1..3 -> CurvePoints] :
          /\ orientation(curve[1], curve[2], curve[3]) = clockwise
          /\ PointLess(curve[1], curve[2]) /\ PointLess(curve[1], curve[3]) }

HoleLists == UNION { [1..n -> HoleTriangles] : n \in 0..MaxHoles }

\* Polygon() and Polygon(boundary, holes) with the boundary a polygon on the
\* square grid with up to maxVertices vertices.
PolygonsWithHoles(maxVertices) ==
    {<<>>} \cup { <<outer>> \o holes :
                     outer \in SimplePolygonsOf(OuterPoints, 3..maxVertices),
                     holes \in HoleLists }

InitHoles ==
    /\ IndexIdle
    /\ inp \in [poly : PolygonsWithHoles(MaxVertices + 1), point : OuterPoints]
    /\ res = <<>>
    /\ pc = "start"

\* contains(poly, point) for a Polygon
ContainsPolygonPoint ==
    /\ pc = "start"
    /\ res' = containsPolygon(inp.poly, inp.point)
    /\ pc' = "containsPolygon"
    /\ UNCHANGED <<inp, indexVars>>

NextHoles == ContainsPolygonPoint

SpecHoles == InitHoles /\ [][NextHoles]_vars

\* C19: contains(P, q) of a polygon with holes is true iff contains(outer, q)
\* is true and contains(hole, q) is false for every hole; the empty polygon
\* yields false; every vertex of the outer boundary that lies in no hole is
\* contained and every vertex of a hole is not.
C19_ContainsWithHoles ==
    pc = "containsPolygon" =>
        /\ res.status = "ok"
        /\ inp.poly = <<>> => res.val = FALSE
        /\ inp.poly # <<>> =>
               /\ res.val <=>
                      /\ containsSimplePolygon(inp.poly[1], inp.point).val
                      /\ \A h \in 2..Len(inp.poly) :
                             ~containsSimplePolygon(inp.poly[h], inp.point).val
               /\ (/\ \E i \in DOMAIN inp.poly[1] : inp.poly[1][i] = inp.point
                   /\ \A h \in 2..Len(inp.poly) : ~InsideOrOn(inp.poly[h], inp.point))
                      => res.val
               /\ (\E h \in 2..Len(inp.poly) :
                      \E i \in DOMAIN inp.poly[h] : inp.poly[h][i] = inp.point)
                      => ~res.val

\* ========================================== boundaryCurve() / boundary()
\* SimplePolygon(curve) keeps the curve.
SimplePolygon(piecewiseLinearCurve) == piecewiseLinearCurve

\* Polygon(boundary, holes) keeps the boundary in front of the holes;
\* Polygon() keeps nothing.
Polygon(boundary_, holes) == <<boundary_>> \o holes

DefaultPolygon == <<>>

\* empty() of a SimplePolygon or Polygon: std::empty of the vector it keeps.
emptyPolygon(object) == object = <<>>

boundaryCurve(object) ==
    IF emptyPolygon(object) THEN Thrown ELSE Returned(object)

\* boundary() that hands back m_arrContours.back().
boundaryBack(object) ==
    IF emptyPolygon(object) THEN Thrown ELSE Returned(object[Len(object)])

boundary(object) ==
    IF emptyPolygon(object) THEN Thrown ELSE Returned(object[1])

\* Holes of the polygons whose boundary is asked for: at most one vertex.
HoleCurves == { curve \in Curves : Len(curve) <= 1 }

BoundaryInputs ==
    [kind : {"SimplePolygon"}, boundary : Curves, holes : {<<>>}]
    \cup [kind : {"Polygon()"}, boundary : {<<>>}, holes : {<<>>}]
    \cup [kind : {"Polygon"}, boundary : Curves,
          holes : UNION { [1..n -> HoleCurves] : n \in 0..MaxHoles }]

Constructed(args) ==
    CASE args.kind = "SimplePolygon" -> SimplePolygon(args.boundary)
      [] args.kind = "Polygon()" -> DefaultPolygon
      [] args.kind = "Polygon" -> Polygon(args.boundary, args.holes)

InitBoundary ==
    /\ IndexIdle
    /\ inp \in BoundaryInputs
    /\ res = [object |-> Constructed(inp), ret |-> [status |-> "none", val |-> <<>>]]
    /\ pc = "constructed"

\* poly.boundaryCurve() on a SimplePolygon, poly.boundary() on a Polygon
Boundary ==
    /\ pc = "constructed"
    /\ res' = [object |-> res.object,
               ret |-> IF inp.kind = "SimplePolygon"
                       THEN boundaryCurve(res.object)
                       ELSE boundary(res.object)]
    /\ pc' = "boundary"
    /\ UNCHANGED <<inp, indexVars>>

NextBoundary == Boundary

SpecBoundary == InitBoundary /\ [][NextBoundary]_vars

\* C20: boundaryCurve() of a SimplePolygon and boundary() of a Polygon throw
\* std::out_of_range exactly when empty() is true, otherwise return the
\* vertex sequence / outer boundary the object was constructed with, and
\* leave the object as it was constructed.
C20_BoundaryOrEmpty ==
    pc = "boundary" =>
        /\ res.ret.status \in {"ok", "out_of_range"}
        /\ (res.ret.status = "out_of_range") <=> emptyPolygon(Constructed(inp))
        /\ res.ret.status = "ok" => res.ret.val = inp.boundary
        /\ res.object = Constructed(inp)

\* C20 witness: boundary() of a Polygon with a hole that differs from its
\* outer boundary has returned.
C20_Witness ==
    /\ pc = "boundary"
    /\ inp.kind = "Polygon"
    /\ inp.holes # <<>> /\ inp.holes[1] # inp.boundary
    /\ res.ret.status = "ok"

\* ============================================ hasIntersect of two polygons
\* Vector is [x, y], the coordinates of its top.
VectorOf(point) == [x |-> point.x, y |-> point.y]

VectorMinus(lhs, rhs) == [x |-> lhs.x - rhs.x, y |-> lhs.y - rhs.y]

dotProduct(first, second) == first.x * second.x + first.y * second.y

\* The conversion of std::sqrt(n) to the integer coordinate type truncates.
RECURSIVE SqrtToInt(_, _)
SqrtToInt(n, r) == IF (r + 1) * (r + 1) > n THEN r ELSE SqrtToInt(n, r + 1)

\* Integer division of the coordinate type truncates toward zero.
DivToInt(a, b) ==
    LET q == (IF a < 0 THEN -a ELSE a) \div (IF b < 0 THEN -b ELSE b)
    IN  IF (a < 0) = (b < 0) THEN q ELSE -q

absoluteValue(vector) == SqrtToInt(vector.x * vector.x + vector.y * vector.y, 0)

normalize(vector) ==
    LET magnitude == absoluteValue(vector)
    IN  IF magnitude = 0
        THEN [x |-> 0, y |-> 0]
        ELSE [x |-> DivToInt(vector.x, magnitude), y |-> DivToInt(vector.y, magnitude)]

axisPerpendicularOf(vector) == normalize([x |-> -vector.y, y |-> vector.x])

\* The [min, max] interval of the projections of the vertices from index i on.
RECURSIVE projectFrom(_, _, _, _, _)
projectFrom(axis, curve, i, min, max) ==
    IF i > Len(curve)
    THEN [min |-> min, max |-> max]
    ELSE LET dot == dotProduct(axis, VectorOf(curve[i]))
         IN  IF dot < min
             THEN projectFrom(axis, curve, i + 1, dot, max)
             ELSE IF dot > max
                  THEN projectFrom(axis, curve, i + 1, min, dot)
                  ELSE projectFrom(axis, curve, i + 1, min, max)

projectPolygon(axis, curve) ==
    LET first == dotProduct(axis, VectorOf(curve[1]))
    IN  projectFrom(axis, curve, 1, first, first)

intervalDistance(minA, maxA, minB, maxB) ==
    IF minA < minB THEN minB - maxA ELSE minA - maxB

polygonProjectionshasIntersect(axis, first, second) ==
    LET a == projectPolygon(axis, first)
        b == projectPolygon(axis, second)
    IN  ~(intervalDistance(a.min, a.max, b.min, b.max) > 0)

\* The loop over the edges of first, from edgeIndex (0-based) on.
RECURSIVE edgesOverlapFrom(_, _, _)
edgesOverlapFrom(first, second, edgeIndex) ==
    LET edgeCountFirst == Len(first)
    IN  IF ~(edgeIndex < edgeCountFirst)
        THEN TRUE
        ELSE LET p1 == first[edgeIndex + 1]
                 p2 == first[((edgeIndex + 1) % edgeCountFirst) + 1]
                 edge == VectorMinus(VectorOf(p2), VectorOf(p1))
                 axis == axisPerpendicularOf(edge)
             IN  IF ~polygonProjectionshasIntersect(axis, first, second)
                 THEN FALSE
                 ELSE edgesOverlapFrom(first, second, edgeIndex + 1)

polygonEdgesProjectionsOverlaps(first, second) == edgesOverlapFrom(first, second, 0)

\* hasIntersect(SimplePolygon, SimplePolygon); the polygons are their curves.
hasIntersectPolygons(first, second) ==
    /\ polygonEdgesProjectionsOverlaps(first, second)
    /\ polygonEdgesProjectionsOverlaps(second, first)

topLeft(rect) == [x |-> rect.x, y |-> rect.y + rect.h]

bottomRight(rect) == [x |-> rect.x + rect.w, y |-> rect.y]

rectToPolygon(rect) ==
    <<bottomLeft(rect), topLeft(rect), topRight(rect), bottomRight(rect)>>

InitPolygons ==
    /\ IndexIdle
    /\ inp \in [first : Rects, second : Rects]
    /\ res = <<>>
    /\ pc = "start"

\* hasIntersect on the polygons of the two rectangles, both ways round.
HasIntersectPolygons ==
    /\ pc = "start"
    /\ res' = [there |-> hasIntersectPolygons(rectToPolygon(inp.first), rectToPolygon(inp.second)),
               back |-> hasIntersectPolygons(rectToPolygon(inp.second), rectToPolygon(inp.first))]
    /\ pc' = "hasIntersectPolygons"
    /\ UNCHANGED <<inp, indexVars>>

NextPolygons == HasIntersectPolygons

SpecPolygons == InitPolygons /\ [][NextPolygons]_vars

\* The closed boxes share at least one point.
BoxesMeet(a, b) ==
    /\ RightOf(a) >= LeftOf(b) /\ RightOf(b) >= LeftOf(a)
    /\ TopOf(a) >= BottomOf(b) /\ TopOf(b) >= BottomOf(a)

\* C21: for any two rectangles, also of zero width or height, hasIntersect on
\* their 4-vertex polygons (bottom-left, top-left, top-right, bottom-right)
\* equals the closed-box intersection of the rectangles.
C21_PolygonsOfRectsIntersect ==
    pc = "hasIntersectPolygons" => (res.there <=> BoxesMeet(inp.first, inp.second))

\* ========================================================= boundaryBoxOf
MaxBoxVertices == 3   \* polygons whose box is taken have 1..MaxBoxVertices vertices

\* Non-empty curves over the small grid.
BoxCurves(maxVertices) == UNION { [1..n -> OuterPoints] : n \in 1..maxVertices }

\* A SimplePolygon, or a Polygon with no hole or with a one-vertex hole.
BoundaryBoxInputs(maxVertices) ==
    [kind : {"SimplePolygon"}, boundary : BoxCurves(maxVertices), holes : {<<>>}]
    \cup [kind : {"Polygon"}, boundary : BoxCurves(maxVertices),
          holes : {<<>>} \cup { <<hole>> : hole \in BoxCurves(1) }]

\* boundaryBoxOf(Polygon) is boundaryBoxOf of poly.boundary().
boundaryBoxOfPolygon(poly) == boundaryBoxOf(boundary(poly).val)

InitBoundaryBox ==
    /\ IndexIdle
    /\ inp \in BoundaryBoxInputs(MaxBoxVertices)
    /\ res = <<>>
    /\ pc = "start"

BoundaryBoxOf ==
    /\ pc = "start"
    /\ res' = IF inp.kind = "SimplePolygon"
              THEN boundaryBoxOf(Constructed(inp))
              ELSE boundaryBoxOfPolygon(Constructed(inp))
    /\ pc' = "boundaryBoxOf"
    /\ UNCHANGED <<inp, indexVars>>

NextBoundaryBox == BoundaryBoxOf

SpecBoundaryBox == InitBoundaryBox /\ [][NextBoundaryBox]_vars

\* The least and greatest of a non-empty set of integers.
MinOf(values) == CHOOSE v \in values : \A o \in values : v <= o

MaxOf(values) == CHOOSE v \in values : \A o \in values : o <= v

XsOf(curve) == { curve[i].x : i \in DOMAIN curve }

YsOf(curve) == { curve[i].y : i \in DOMAIN curve }

\* C22: boundaryBoxOf of a non-empty simple polygon is the smallest box that
\* contains every vertex: pos = (min x, min y), width = max x - min x >= 0,
\* height = max y - min y >= 0; for a Polygon it is the box of its outer
\* boundary.
C22_BoundaryBoxIsSmallest ==
    pc = "boundaryBoxOf" =>
        /\ res = [x |-> MinOf(XsOf(inp.boundary)), y |-> MinOf(YsOf(inp.boundary)),
                  w |-> MaxOf(XsOf(inp.boundary)) - MinOf(XsOf(inp.boundary)),
                  h |-> MaxOf(YsOf(inp.boundary)) - MinOf(YsOf(inp.boundary))]
        /\ res.w >= 0 /\ res.h >= 0

\* ================================================ shape of the index tree
\* The split lines of region pass through key: k.x <= mx <= k.x + width or
\* k.y <= my <= k.y + height.
SplitLinesThrough(key, region) ==
    LET mx == region.x + (region.size \div 2)
        my == region.y + (region.size \div 2)
    IN  \/ (key.x <= mx /\ mx <= key.x + key.w)
        \/ (key.y <= my /\ my <= key.y + key.h)

\* The quadrant of region that key lies in when no split line passes through
\* it, as a child slot and as a square.
QuadrantOf(key, region) ==
    LET half == region.size \div 2
        right == key.x >= region.x + half
        top == key.y >= region.y + half
    IN  [slot |-> IF right THEN (IF top THEN RightTop ELSE RightBottom)
                  ELSE (IF top THEN LeftTop ELSE LeftBottom),
         region |-> [x |-> IF right THEN region.x + half ELSE region.x,
                     y |-> IF top THEN region.y + half ELSE region.y,
                     size |-> half]]

\* The path of the node that has to hold key below a root of the given
\* region: the shallowest one whose split lines pass through key, or the
\* unit-sized one the descent ends in.
RECURSIVE OwnerFrom(_, _, _)
OwnerFrom(key, region, path) ==
    IF SplitLinesThrough(key, region) \/ region.size <= 1
    THEN path
    ELSE LET quadrant == QuadrantOf(key, region)
         IN  OwnerFrom(key, quadrant.region, Append(path, quadrant.slot))

Owner(tree, key) == OwnerFrom(key, tree[Root].region, Root)

\* C23: every stored key is held by the shallowest node on its routing path
\* from the current root whose split lines pass through it, or by a
\* unit-sized leaf if there is no such node, in every reachable state.
C23_HeldByShallowestStraddler ==
    \A k \in stored :
        /\ HasRoot(nodes)
        /\ HoldersOf(nodes, k) = {Owner(nodes, k)}

\* The greater coordinate of the top-right corner of key.
MaxTopRight(key) ==
    IF key.x + key.w >= key.y + key.h THEN key.x + key.w ELSE key.y + key.h

\* The least power of two that is strictly greater than m, from s on.
RECURSIVE PowerOfTwoAbove(_, _)
PowerOfTwoAbove(m, s) == IF s > m THEN s ELSE PowerOfTwoAbove(m, 2 * s)

\* The call is the first insert into an index without a root.
FirstInsert == last'.op = "insert" /\ ~HasRoot(nodes)

MaxGrow == 4     \* the point keys that make the root grow have x in 0..MaxGrow

\* Point-sized keys far enough from the origin to double a unit root twice.
GrowKeys == [x : 0..MaxGrow, y : 0..MaxPos, w : {0}, h : {0}]

NextGrow ==
    \/ \E key \in GrowKeys : \E regionSize \in creatRootSizes(key) : Insert(key, regionSize)
    \/ \E key \in GrowKeys : Remove(key)
    \/ Clear

SpecGrow == Init /\ [][NextGrow]_vars

\* The number of doublings that take size to the first size >= m.
RECURSIVE Doublings(_, _)
Doublings(regionSize, m) == IF regionSize >= m THEN 0 ELSE 1 + Doublings(2 * regionSize, m)

\* The path that follows LeftBottom children n times.
RECURSIVE LeftBottoms(_)
LeftBottoms(n) == IF n = 0 THEN << >> ELSE <<LeftBottom>> \o LeftBottoms(n - 1)

\* C25: for a key with non-negative position and extents the grow-up loop of
\* insert ends after no more doublings than it takes to reach the first size
\* >= the greater coordinate of the key's top-right corner; then the root is
\* anchored at (0,0), its region contains the key, and the previous root with
\* its whole subtree unchanged is found by following LeftBottom children from
\* the new root.  The finished insert keeps that root and all those nodes.
C25_GrowUp ==
    [][(last'.op = "insert" /\ HasRoot(nodes)) =>
          LET k == last'.key
              regionSize == nodes[Root].region.size
              d == Doublings(regionSize, MaxTopRight(k))
              up == growUpIfNeeds(nodes, k)
          IN  /\ up[Root].region = [x |-> 0, y |-> 0, size |-> regionSize * Pow2(d)]
              /\ containsBox(up[Root].region, k)
              /\ DOMAIN up = { LeftBottoms(d) \o q : q \in DOMAIN nodes }
                                 \cup { LeftBottoms(j) : j \in 0..(d - 1) }
              /\ \A q \in DOMAIN nodes : up[LeftBottoms(d) \o q] = nodes[q]
              /\ \A j \in 0..(d - 1) :
                     up[LeftBottoms(j)] =
                         Node([x |-> 0, y |-> 0, size |-> regionSize * Pow2(d - j)])
              /\ nodes'[Root].region = up[Root].region
              /\ \A q \in DOMAIN nodes :
                     /\ LeftBottoms(d) \o q \in DOMAIN nodes'
                     /\ nodes'[LeftBottoms(d) \o q].region = nodes[q].region
                     /\ nodes'[LeftBottoms(d) \o q].values \ {k} = nodes[q].values \ {k}
      ]_vars

\* C25 witness: an insert of a key outside the square ((0,0), 2) has left a
\* root of size 4 whose LeftBottom grandchild is a unit node holding a key
\* that the descent from this root would have stopped above: the unit node is
\* a previous root, two doublings down.
C25_Witness ==
    /\ last.op = "insert"
    /\ HasRoot(nodes) /\ nodes[Root].region.size = 4
    /\ ~containsBox([x |-> 0, y |-> 0, size |-> 2], last.key)
    /\ LeftBottoms(2) \in DOMAIN nodes
    /\ nodes[LeftBottoms(2)].region.size = 1
    /\ \E k \in nodes[LeftBottoms(2)].values : Owner(nodes, k) = LeftBottoms(1)

\* ------------------------------------------------------------- regions
\* n is 1, 2, 4, 8, ...
RECURSIVE IsPowerOfTwo(_)
IsPowerOfTwo(n) == n = 1 \/ (n > 1 /\ n % 2 = 0 /\ IsPowerOfTwo(n \div 2))

\* child_region(R, z): the quadrant z of R, of half its size.
ChildRegion(region, z) ==
    LET half == region.size \div 2
    IN  [x |-> IF z \in {RightTop, RightBottom} THEN region.x + half ELSE region.x,
         y |-> IF z \in {LeftTop, RightTop} THEN region.y + half ELSE region.y,
         size |-> half]

\* C26: in every reachable state the region size of every node is a positive
\* power of two, the root is anchored at (0,0), and the child in slot z of a
\* node has exactly the quadrant z of its parent's region, of half the size;
\* no node has size 0.
C26_RegionsArePowerOfTwoQuadrants ==
    /\ \A p \in DOMAIN nodes :
           /\ nodes[p].region.size > 0
           /\ IsPowerOfTwo(nodes[p].region.size)
           /\ p # Root =>
                  /\ SubSeq(p, 1, Len(p) - 1) \in DOMAIN nodes
                  /\ nodes[p].region =
                         ChildRegion(nodes[SubSeq(p, 1, Len(p) - 1)].region, p[Len(p)])
    /\ HasRoot(nodes) => (nodes[Root].region.x = 0 /\ nodes[Root].region.y = 0)

\* C26 witness: a root that was doubled twice above a unit root, with a child
\* that grow-down made in another quadrant.
C26_Witness ==
    /\ HasRoot(nodes) /\ nodes[Root].region.size = 4
    /\ LeftBottoms(2) \in DOMAIN nodes
    /\ \E k \in nodes[LeftBottoms(2)].values : Owner(nodes, k) = LeftBottoms(1)
    /\ \E z \in ZOrderPos \ {LeftBottom} : <<z>> \in DOMAIN nodes

\* --------------------------------------------------------------- remove
\* The node at path has no child in tree.
Childless(tree, path) == \A z \in ZOrderPos : Append(path, z) \notin DOMAIN tree

\* remove(k) was called for a key that is stored.
RemovedStored == last'.op = "remove" /\ last'.key \in stored

\* C27: after remove(k) of a stored key the node that held k is detached from
\* its parent's slot (the root pointer cleared when it is the root) if and
\* only if it is left with no values and no children; no other node is
\* detached, so ancestors left with no values and no children stay.
C27_RemoveDetachesOnlyEmptyHolder ==
    [][RemovedStored =>
          LET k == last'.key
              holders == HoldersOf(nodes, k)
          IN  /\ (DOMAIN nodes \ DOMAIN nodes') \subseteq holders
              /\ \A h \in holders :
                     (h \notin DOMAIN nodes') <=>
                         IF h \in DOMAIN nodes'
                         THEN nodes'[h].values = {} /\ Childless(nodes', h)
                         ELSE nodes[h].values = {k} /\ Childless(nodes, h)
              /\ \A p \in DOMAIN nodes' : p \in DOMAIN nodes /\ nodes'[p].region = nodes[p].region
      ]_vars

\* C27 witness: remove has detached the node that held its key and left the
\* parent of that node in the tree with no values and no children.
C27_Witness ==
    /\ last.op = "remove" /\ last.ret
    /\ \E p \in DOMAIN nodes :
           /\ nodes[p].values = {} /\ Childless(nodes, p)
           /\ Owner(nodes, last.key) \in { Append(p, z) : z \in ZOrderPos }

\* ---------------------------------------------------- contains and query
\* The tree findNode leaves behind, had it materialized the children on the
\* way as growDownIfNeedsAndReturnLastNode does.
findNodeTreeGrowDown(tree, key) ==
    IF ~HasRoot(tree) THEN tree ELSE growDownIfNeedsAndReturnLastNode(tree, key).tree

\* The tree findNode leaves behind: it reads regions and child slots and
\* returns at a null child, so the tree is the one it was given.
findNodeTree(tree, key) == tree

\* query pushes node pointers on its own stack and writes to outIt only.
queryTree(tree, key) == tree

\* contains(key)
ContainsCall(key) ==
    /\ nodes' = findNodeTree(nodes, key)
    /\ last' = [op |-> "contains", key |-> key, ret |-> Contains(nodes, key)]
    /\ UNCHANGED <<m_size, stored, geomVars>>

\* query(key, outIt); ret is the bag written to outIt.
QueryCall(key) ==
    /\ nodes' = queryTree(nodes, key)
    /\ last' = [op |-> "query", key |-> key, ret |-> Query(nodes, key)]
    /\ UNCHANGED <<m_size, stored, geomVars>>

NextRead ==
    \/ Next
    \/ \E key \in Keys : ContainsCall(key)
    \/ \E key \in Keys : QueryCall(key)

SpecRead == Init /\ [][NextRead]_vars

\* C28: contains(k) and query(q, out) leave the index unchanged in every
\* state: no node is created or detached and no region or value set changes;
\* contains on a key whose routing path reaches an absent child returns false
\* without materializing that child.
C28_ReadsLeaveIndexUnchanged ==
    [][/\ last'.op \in {"contains", "query"} =>
              /\ nodes' = nodes
              /\ m_size' = m_size
       /\ (last'.op = "contains" /\ findNode(nodes, last'.key).isNull) =>
              /\ last'.ret = FALSE
              /\ DOMAIN nodes' = DOMAIN nodes
      ]_vars

\* C28 witness: contains has returned false for a key whose descent from the
\* root of a tree that holds keys ends at a null child slot.
C28_Witness ==
    /\ last.op = "contains" /\ last.ret = FALSE
    /\ HasRoot(nodes)
    /\ findNode(nodes, last.key).isNull
    /\ AllValues(nodes) # EmptyBag

\* ------------------------------------------------- keys inside regions
\* The node at path and its ancestors up to the root.
UpToRoot(path) == { SubSeq(path, 1, n) : n \in 0..Len(path) }

\* Closed containment of both corners of key in region.
RegionHolds(region, key) ==
    /\ region.x <= key.x /\ key.x + key.w <= region.x + region.size
    /\ region.y <= key.y /\ key.y + key.h <= region.y + region.size

\* C29: in every reachable state every key held by a node is contained, with
\* its bottom-left and top-right corner, in the region of that node and of
\* each of its ancestors, so the region test of query, which skips a node
\* with its subtree, never skips a key that intersects the query rectangle.
C29_KeysInsideRegions ==
    \A p \in DOMAIN nodes : \A k \in nodes[p].values : \A a \in UpToRoot(p) :
        /\ a \in DOMAIN nodes
        /\ RegionHolds(nodes[a].region, k)
        /\ \A q \in Keys : BoxesMeet(q, k) => hesIntersect(q, nodes[a].region)

\* C29 witness: a unit root was doubled; a key with an extent that it held
\* is now one level down, inside both regions, and the new root holds a key
\* of its own.
C29_Witness ==
    /\ HasRoot(nodes) /\ nodes[Root].region.size = 2
    /\ LeftBottoms(1) \in DOMAIN nodes
    /\ \E k \in nodes[LeftBottoms(1)].values :
           /\ Owner(nodes, k) = Root
           /\ k.w + k.h > 0
    /\ nodes[Root].values # {}

====
